---- MODULE Spec2Model ----
(***************************************************************************)
(* heatmon: hysteresis debounce of three zone demand lines, the bounded    *)
(* newest-first event log, and its fixed-capacity JSON rendering.          *)
(* Modelled from src/user/applications/heatmon/application.cpp.            *)
(*                                                                         *)
(* Characters are one-character strings; NUL is the terminating zero byte. *)
(* A char buffer of sizeof size is held as its leading bytes, data, and    *)
(* the byte rest that fills every index from Len(data) on: the C index i   *)
(* is data[i + 1] when i < Len(data) and rest otherwise.                   *)
(***************************************************************************)
EXTENDS Integers, Sequences, FiniteSets, TLC

(***************************************************************************)
(* Program constants                                                       *)
(***************************************************************************)
HYST_MAX == 500
HYST_MIN == 0
HYST_THRESH_ON == 400
HYST_THRESH_OFF == 100

\* enum Demand { Unknown, True, False }
Unknown == 0
True == 1
False == 2

MAX_NUM_EVENTS == 20

\* sizeof(zone_events_json) and sizeof(buff) in read_all_zones
ZONE_EVENTS_JSON_SIZE == 620
BUFF_SIZE == 64

\* A negative int passed as a size_t is at least 2^31: larger than every length
\* of the model.  It is represented by the largest integer TLC holds.
SIZE_T_WRAPPED == 2147483647

NUL == "NUL"

\* Pin levels returned by digitalRead
Levels == {"HIGH", "LOW"}

Zones == 0 .. 2

(***************************************************************************)
(* Bounds of the model                                                     *)
(***************************************************************************)
\* Spec: polls taken
MaxPolls == 400
\* SpecLog: polls taken
MaxLogPolls == 2000
\* SpecEnc: largest log and largest destination capacity drawn in Init
MaxEncLog == 3
MaxCap == 60
\* SpecEnc: calls of update_event_json in a row
MaxRenders == 2
\* The clock at start-up, in seconds
StartTime == 1000
\* SpecEpoch: the clock at start-up, 100 seconds before its first 10-digit
\* value
EpochStart == 999999900
\* SpecWrap: periods of the lines before the counter's last value at Init,
\* and polls taken after the overflow
WrapLead == 1
WrapPolls == 12

(***************************************************************************)
(* Helpers                                                                 *)
(***************************************************************************)
Min(a, b) == IF a <= b THEN a ELSE b

Max(a, b) == IF a >= b THEN a ELSE b

\* conversion of an int argument to the size_t parameter buffer_size
ToSizeT(x) == IF x >= 0 THEN x ELSE SIZE_T_WRAPPED

DigitChar == <<"0", "1", "2", "3", "4", "5", "6", "7", "8", "9">>

RECURSIVE Digits(_)
Digits(n) == IF n < 10 THEN <<DigitChar[n + 1]>>
             ELSE Digits(n \div 10) \o <<DigitChar[(n % 10) + 1]>>

\* printf %d
FormatInt(n) == IF n < 0 THEN <<"-">> \o Digits(-n) ELSE Digits(n)

\* ZONE_JSON_STRING = "{\"id\":%d,\"t\":%d,\"on\":%d}" applied to its arguments
ZONE_JSON_STRING(id, t, on) ==
    <<"{", "\"", "i", "d", "\"", ":">> \o FormatInt(id)
    \o <<",", "\"", "t", "\"", ":">> \o FormatInt(t)
    \o <<",", "\"", "o", "n", "\"", ":">> \o FormatInt(on)
    \o <<"}">>

\* The text snprintf formats for an event: id, time, demand == Demand::True
OnFlag(event) == IF event.demand = True THEN 1 ELSE 0

FormatEvent(event) == ZONE_JSON_STRING(event.info.id, event.time, OnFlag(event))

(***************************************************************************)
(* Buffers                                                                 *)
(***************************************************************************)
Buffer(size, data, rest) == [size |-> size, data |-> data, rest |-> rest]

\* The byte at C index i, 0 <= i < size
ByteAt(buf, i) == IF i + 1 <= Len(buf.data) THEN buf.data[i + 1] ELSE buf.rest

\* All the bytes of the buffer, index 0 first
Bytes(buf) == [j \in 1 .. buf.size |-> ByteAt(buf, j - 1)]

\* The buffer after storing the text s from index off on; the stores at
\* indices outside the buffer are left out
RECURSIVE LastUsed(_, _, _)
LastUsed(bytes, j, rest) ==
    IF j = 0 \/ bytes[j] # rest THEN j ELSE LastUsed(bytes, j - 1, rest)

Store(buf, off, s) ==
    LET hi  == Min(buf.size, Max(Len(buf.data), off + Len(s)))
        all == [j \in 1 .. hi |-> IF (j - off) \in 1 .. Len(s) THEN s[j - off]
                                  ELSE ByteAt(buf, j - 1)]
    IN  Buffer(buf.size, SubSeq(all, 1, LastUsed(all, hi, buf.rest)), buf.rest)

(***************************************************************************)
(* Memory: a buffer with the set of indices written to it.  A write at an  *)
(* index outside the buffer leaves the buffer alone and is recorded in w.  *)
(***************************************************************************)
Mem(buf) == [buf |-> buf, w |-> {}]

WriteStr(mem, off, s) ==
    [buf |-> Store(mem.buf, off, s),
     w   |-> mem.w \cup {off + i - 1 : i \in 1 .. Len(s)}]

WriteByte(mem, i, c) == WriteStr(mem, i, <<c>>)

\* Variant of Snprintf: the size limit ignored, as sprintf would
SnprintfNoLimit(mem, off, n, s) == WriteStr(mem, off, s \o <<NUL>>)

\* snprintf(buffer + off, n, ...) of text s: at most n - 1 characters and a NUL
Snprintf(mem, off, n, s) ==
    IF n = 0 THEN mem
    ELSE WriteStr(mem, off, SubSeq(s, 1, Min(Len(s), n - 1)) \o <<NUL>>)

(***************************************************************************)
(* write_event_json: result [mem, ret]                                     *)
(***************************************************************************)
\* Variant of write_event_json: no room kept for the NUL (needed > buffer_size)
write_event_json_NoNulRoom(event, mem, off, buffer_size, leading_comma) ==
    LET comma  == leading_comma /\ buffer_size >= 2
        mem1   == IF comma THEN WriteByte(mem, off, ",") ELSE mem
        off1   == IF comma THEN off + 1 ELSE off
        size1  == IF comma THEN buffer_size - 1 ELSE buffer_size
        text   == FormatEvent(event)
        needed == Len(text)
    IN  [mem |-> Snprintf(mem1, off1, size1, text),
         ret |-> IF needed > size1 THEN -1
                 ELSE needed + (IF leading_comma THEN 1 ELSE 0)]

write_event_json(event, mem, off, buffer_size, leading_comma) ==
    LET comma  == leading_comma /\ buffer_size >= 2
        mem1   == IF comma THEN WriteByte(mem, off, ",") ELSE mem
        off1   == IF comma THEN off + 1 ELSE off
        size1  == IF comma THEN buffer_size - 1 ELSE buffer_size
        text   == FormatEvent(event)
        needed == Len(text)
    IN  [mem |-> Snprintf(mem1, off1, size1, text),
         ret |-> IF needed >= size1 THEN -1
                 ELSE needed + (IF leading_comma THEN 1 ELSE 0)]

(***************************************************************************)
(* update_event_json: result [mem, ret]                                    *)
(***************************************************************************)
\* Variant of FreeSpace: no byte kept for the ending ']'
FreeSpaceNoReserve(size, idx) == size - idx

\* free_space = sizeof(zone_events_json) - idx - 1, held in an int
FreeSpace(size, idx) == size - idx - 1

\* The for loop over zone_events from element i on
RECURSIVE EventLoop(_, _, _, _)
EventLoop(events, i, mem, idx) ==
    IF i > Len(events) THEN [mem |-> mem, idx |-> idx]
    ELSE LET free_space == FreeSpace(mem.buf.size, idx)
             r == write_event_json(events[i], mem, idx,
                                   ToSizeT(free_space), i > 1)
         IN  IF r.ret < 0 THEN [mem |-> r.mem, idx |-> idx]
             ELSE EventLoop(events, i + 1, r.mem, idx + r.ret)

\* Variant of EventLoop and update_event_json: 'first' kept from call to call
\* (a static local), so that a call after one that rendered the log starts
\* with first = false.  The earlier call shows in the '[' it left at index 0.
RECURSIVE EventLoopStaticFirst(_, _, _, _, _)
EventLoopStaticFirst(events, i, mem, idx, first) ==
    IF i > Len(events) THEN [mem |-> mem, idx |-> idx]
    ELSE LET free_space == FreeSpace(mem.buf.size, idx)
             r == write_event_json(events[i], mem, idx,
                                   ToSizeT(free_space), ~first)
         IN  IF r.ret < 0 THEN [mem |-> r.mem, idx |-> idx]
             ELSE EventLoopStaticFirst(events, i + 1, r.mem, idx + r.ret, FALSE)

update_event_json_StaticFirst(buf, events) ==
    IF buf.size < 3 THEN [mem |-> Mem(buf), ret |-> 0]
    ELSE LET first == ByteAt(buf, 0) # "["
             l == EventLoopStaticFirst(events, 1, WriteByte(Mem(buf), 0, "["),
                                       1, first)
         IN  [mem |-> WriteByte(WriteByte(l.mem, l.idx, "]"), l.idx + 1, NUL),
              ret |-> l.idx + 1]

\* Variant of update_event_json: without the minimum bound
update_event_json_NoMinBound(buf, events) ==
    LET l == EventLoop(events, 1, WriteByte(Mem(buf), 0, "["), 1)
    IN  [mem |-> WriteByte(WriteByte(l.mem, l.idx, "]"), l.idx + 1, NUL),
         ret |-> l.idx + 1]

update_event_json(buf, events) ==
    IF buf.size < 3 THEN [mem |-> Mem(buf), ret |-> 0]
    ELSE LET l == EventLoop(events, 1, WriteByte(Mem(buf), 0, "["), 1)
         IN  [mem |-> WriteByte(WriteByte(l.mem, l.idx, "]"), l.idx + 1, NUL),
              ret |-> l.idx + 1]

(***************************************************************************)
(* C strings                                                               *)
(***************************************************************************)
HasNul(buf) ==
    \/ \E j \in 1 .. Len(buf.data) : buf.data[j] = NUL
    \/ (buf.rest = NUL /\ Len(buf.data) < buf.size)

\* The characters before the first NUL (the whole buffer when it holds none)
CStr(buf) ==
    IF \E j \in 1 .. Len(buf.data) : buf.data[j] = NUL
    THEN LET n == CHOOSE j \in 1 .. Len(buf.data) :
                      buf.data[j] = NUL /\ \A k \in 1 .. (j - 1) : buf.data[k] # NUL
         IN  SubSeq(buf.data, 1, n - 1)
    ELSE IF HasNul(buf) THEN buf.data
    ELSE Bytes(buf)

\* A buffer of the given size holding junk (stale or uninitialised bytes)
JunkBuffer(size) == Buffer(size, <<>>, "?")

\* char zone_events_json[620] = "[]": the text, then zero bytes
InitialJson(size) == Buffer(size, <<"[", "]">>, NUL)

(***************************************************************************)
(* State                                                                   *)
(***************************************************************************)
VARIABLES
    zone_list,          \* [Zones -> ZoneInfo]
    zone_events,        \* the event log, newest first
    zone_events_json,   \* the rendered buffer
    polls, last_poll, last_event,
    clock,              \* the external clock: the latest value of Time.now()
    pins,               \* the levels of the sense lines, read by the next poll
    held,               \* per line, the polls that have read its present level
    wave,               \* per line, the polls it stays LOW and stays HIGH
    published,          \* payloads handed to Particle.publish("zone_demand")
    pushed,             \* history: every event put in the log, oldest first
    runs,               \* history: per zone, the current run of LOW readings
    json_ret,           \* value returned by the latest update_event_json
    json_writes,        \* indices written by the latest update_event_json
    renders,            \* history: the calls of update_event_json so far
    aborted             \* the program was ended by a trap on the overflow

vars == <<zone_list, zone_events, zone_events_json, polls, last_poll,
          last_event, clock, pins, held, wave, published, pushed, runs,
          json_ret, json_writes, renders, aborted>>

PinOf(id) == <<"D4", "D5", "D6">>[id + 1]

ZoneInfo(id, pin, count, demand) ==
    [id |-> id, pin |-> pin, count |-> count, demand |-> demand]

ZoneEvent(info, time, demand) ==
    [info |-> info, time |-> time, demand |-> demand]

InitialZoneList ==
    [z \in Zones |-> ZoneInfo(z, PinOf(z), HYST_MAX \div 2, Unknown)]

NoRun == [len |-> 0, count |-> 0, demand |-> Unknown]

(***************************************************************************)
(* read_all_zones                                                          *)
(***************************************************************************)
\* Variant of Observe: no boundary checks
ObserveNoClamp(zone, level) ==
    IF level = "HIGH"
    THEN LET c == zone.count - 1
         IN  [zone EXCEPT !.count = c,
                          !.demand = IF c < HYST_THRESH_OFF THEN False ELSE @]
    ELSE LET c == zone.count + 5
         IN  [zone EXCEPT !.count = c,
                          !.demand = IF c > HYST_THRESH_ON THEN True ELSE @]

\* Variant of Observe: the thresholds compared with <= and >=
ObserveEager(zone, level) ==
    IF level = "HIGH"
    THEN LET c1 == zone.count - 1
             c  == IF c1 < HYST_MIN THEN HYST_MIN ELSE c1
         IN  [zone EXCEPT !.count = c,
                          !.demand = IF c <= HYST_THRESH_OFF THEN False ELSE @]
    ELSE LET c1 == zone.count + 5
             c  == IF c1 > HYST_MAX THEN HYST_MAX ELSE c1
         IN  [zone EXCEPT !.count = c,
                          !.demand = IF c >= HYST_THRESH_ON THEN True ELSE @]

\* Variant of Observe: the demand back to Unknown at the midpoint
ObserveResets(zone, level) ==
    IF level = "HIGH"
    THEN LET c1 == zone.count - 1
             c  == IF c1 < HYST_MIN THEN HYST_MIN ELSE c1
         IN  [zone EXCEPT !.count = c,
                          !.demand = IF c < HYST_THRESH_OFF THEN False
                                     ELSE IF c = HYST_MAX \div 2 THEN Unknown
                                     ELSE @]
    ELSE LET c1 == zone.count + 5
             c  == IF c1 > HYST_MAX THEN HYST_MAX ELSE c1
         IN  [zone EXCEPT !.count = c,
                          !.demand = IF c > HYST_THRESH_ON THEN True ELSE @]

\* Variant of Observe: the thresholds tested before the counter is stepped
ObserveStale(zone, level) ==
    IF level = "HIGH"
    THEN LET c1 == zone.count - 1
             c  == IF c1 < HYST_MIN THEN HYST_MIN ELSE c1
         IN  [zone EXCEPT !.count = c,
                          !.demand = IF zone.count < HYST_THRESH_OFF THEN False
                                     ELSE @]
    ELSE LET c1 == zone.count + 5
             c  == IF c1 > HYST_MAX THEN HYST_MAX ELSE c1
         IN  [zone EXCEPT !.count = c,
                          !.demand = IF zone.count > HYST_THRESH_ON THEN True
                                     ELSE @]

\* One pass of the loop body up to the status check: the zone after the read
Observe(zone, level) ==
    IF level = "HIGH"
    THEN LET c1 == zone.count - 1
             c  == IF c1 < HYST_MIN THEN HYST_MIN ELSE c1
         IN  [zone EXCEPT !.count = c,
                          !.demand = IF c < HYST_THRESH_OFF THEN False ELSE @]
    ELSE LET c1 == zone.count + 5
             c  == IF c1 > HYST_MAX THEN HYST_MAX ELSE c1
         IN  [zone EXCEPT !.count = c,
                          !.demand = IF c > HYST_THRESH_ON THEN True ELSE @]

\* Variant of StatusChanged: the first resolution out of Unknown passed over
StatusChangedFromKnown(previous_demand, zone) ==
    previous_demand # Unknown /\ previous_demand # zone.demand

\* "Change in status?"
StatusChanged(previous_demand, zone) == previous_demand # zone.demand

\* Variant of PushFront: emplace_back for emplace_front
PushBack(events, event) ==
    (IF Len(events) = MAX_NUM_EVENTS
     THEN SubSeq(events, 1, Len(events) - 1)
     ELSE events) \o <<event>>

\* Variant of PushFront: pop_front for pop_back
PushFrontDropNewest(events, event) ==
    <<event>> \o (IF Len(events) = MAX_NUM_EVENTS THEN Tail(events) ELSE events)

\* Add to the queue at the front, dropping the oldest of a full queue
PushFront(events, event) ==
    <<event>> \o (IF Len(events) = MAX_NUM_EVENTS
                  THEN SubSeq(events, 1, Len(events) - 1)
                  ELSE events)

\* Variant of front: the oldest entry, back(), handed to write_event_json
front_Oldest(events) == events[Len(events)]

\* zone_events.front()
front(events) == events[1]

\* The history of the run of LOW readings of a zone
RunAfter(run, zone, level) ==
    IF level = "HIGH" THEN NoRun
    ELSE IF run.len = 0
         THEN [len |-> 1, count |-> zone.count, demand |-> zone.demand]
         ELSE [run EXCEPT !.len = @ + 1]

\* The for loop over zone_list from zone z on.  l holds the globals the loop
\* changes, the local buff and new_event.
RECURSIVE ZoneLoop(_, _, _, _)
ZoneLoop(z, l, raw, tev) ==
    IF z \notin Zones THEN l
    ELSE LET before == l.zone_list[z]
             zone   == Observe(before, raw[z])
             l1     == [l EXCEPT !.zone_list[z] = zone]
         IN  IF StatusChanged(before.demand, zone)
             THEN LET event == ZoneEvent(zone, tev[z], zone.demand)
                      evs   == PushFront(l.zone_events, event)
                      w     == write_event_json(front(evs), Mem(l.buff), 0,
                                                BUFF_SIZE, FALSE)
                  IN  ZoneLoop(z + 1,
                               [l1 EXCEPT !.new_event = TRUE,
                                          !.zone_events = evs,
                                          !.pushed = Append(@, event),
                                          !.buff = w.mem.buf,
                                          !.published = Append(@, CStr(w.mem.buf))],
                               raw, tev)
             ELSE ZoneLoop(z + 1, l1, raw, tev)

\* polls += 1; if(polls < 0) polls = 0;  the increment wraps at 32 bits
INT_MAX == 2147483647

INT_MIN == (-INT_MAX) - 1

\* Variant of PollsAfter: the wrapped sum left in polls, without the reset
PollsAfterNoReset(p) == IF p = INT_MAX THEN INT_MIN ELSE p + 1

PollsAfter(p) ==
    LET inc == IF p = INT_MAX THEN INT_MIN ELSE p + 1
    IN  IF inc < 0 THEN 0 ELSE inc

\* polls is a signed int: polls += 1 at INT_MAX overflows, which the language
\* leaves undefined.  A build either wraps the sum, and the test resets it to
\* 0, or traps on the overflow (-ftrapv, a trapping overflow sanitizer) and
\* the program ends at line 236 with polls as it was.
PollsOutcomes(p) ==
    IF p = INT_MAX
    THEN {[trap |-> FALSE, polls |-> PollsAfter(p)], [trap |-> TRUE, polls |-> p]}
    ELSE {[trap |-> FALSE, polls |-> PollsAfter(p)]}

\* Variant of RenderDue: the buffer regenerated on every poll
RenderDueAlways(new_event) == TRUE

\* if(new_event) after the loop
RenderDue(new_event) == new_event

\* raw[z]: the level digitalRead returns for zone z; tev[z]: the value of
\* Time.now() when zone z logs an event; tend: Time.now() after the loop.
\* A call the overflow trap ends leaves the globals as they are at line 236.
read_all_zones(raw, tev, tend) ==
    LET l == ZoneLoop(0, [zone_list |-> zone_list, zone_events |-> zone_events,
                          pushed |-> pushed, published |-> published,
                          buff |-> JunkBuffer(BUFF_SIZE), new_event |-> FALSE],
                      raw, tev)
    IN  /\ zone_list' = l.zone_list
        /\ zone_events' = l.zone_events
        /\ pushed' = l.pushed
        /\ published' = l.published
        /\ last_poll' = tend
        /\ \E out \in PollsOutcomes(polls) :
              /\ polls' = out.polls
              /\ aborted' = out.trap
              /\ IF ~out.trap /\ RenderDue(l.new_event)
                 THEN LET r == update_event_json(zone_events_json, l.zone_events)
                      IN  /\ zone_events_json' = r.mem.buf
                          /\ json_ret' = r.ret
                          /\ json_writes' = r.mem.w
                          /\ renders' = renders + 1
                          /\ last_event' = tend
                 ELSE UNCHANGED <<zone_events_json, json_ret, json_writes,
                                  renders, last_event>>
        /\ clock' = tend
        /\ runs' = [z \in Zones |-> RunAfter(runs[z], zone_list[z], raw[z])]

(***************************************************************************)
(* The sense lines.  Each line carries a periodic signal: LOW for          *)
(* wave.low polls, then HIGH for wave.high polls, starting at either       *)
(* level.                                                                  *)
(***************************************************************************)
Wave(low, high) == [low |-> low, high |-> high]

Toggle(level) == IF level = "HIGH" THEN "LOW" ELSE "HIGH"

LinesAdvance ==
    LET due(z) == held[z] + 1 >= (IF pins[z] = "LOW" THEN wave[z].low
                                                      ELSE wave[z].high)
    IN  /\ pins' = [z \in Zones |-> IF due(z) THEN Toggle(pins[z]) ELSE pins[z]]
        /\ held' = [z \in Zones |-> IF due(z) THEN 0 ELSE held[z] + 1]
        /\ UNCHANGED wave

InitProgram ==
    /\ zone_list = InitialZoneList
    /\ zone_events = <<>>
    /\ zone_events_json = InitialJson(ZONE_EVENTS_JSON_SIZE)
    /\ polls = 0
    /\ last_poll = 0
    /\ last_event = 0
    /\ clock = StartTime
    /\ published = <<>>
    /\ pushed = <<>>
    /\ runs = [z \in Zones |-> NoRun]
    /\ json_ret = -1
    /\ json_writes = {}
    /\ renders = 0
    /\ aborted = FALSE

(***************************************************************************)
(* Spec: the program polled from start-up, the clock standing still.       *)
(***************************************************************************)
Waves == {Wave(31, 306), Wave(81, 306), Wave(61, 151),
          Wave(1, 1), Wave(1, 5), Wave(1, 9)}

Init ==
    /\ InitProgram
    /\ pins \in [Zones -> Levels]
    /\ held = [z \in Zones |-> 0]
    /\ wave \in [Zones -> Waves]

Poll ==
    /\ ~aborted
    /\ polls < MaxPolls
    /\ read_all_zones(pins, [z \in Zones |-> clock], clock)
    /\ LinesAdvance

Next == Poll

Spec == Init /\ [][Next]_vars

(***************************************************************************)
(* SpecLog: long runs; the clock advances one second per poll.             *)
(***************************************************************************)
LogWaves == {Wave(81, 401)}

InitLog ==
    /\ InitProgram
    /\ pins \in [Zones -> Levels]
    /\ held = [z \in Zones |-> 0]
    /\ wave \in [Zones -> LogWaves]

PollTick ==
    /\ ~aborted
    /\ polls < MaxLogPolls
    /\ read_all_zones(pins, [z \in Zones |-> clock], clock + 1)
    /\ LinesAdvance

NextLog == PollTick

SpecLog == InitLog /\ [][NextLog]_vars

(***************************************************************************)
(* SpecGap: as SpecLog, the lines chosen so that the transitions of a zone *)
(* come as close to one another as the counter lets them.  A line starts   *)
(* at a level it has held for a number of polls already.                   *)
(***************************************************************************)
LineStart(level, h, w) == [level |-> level, held |-> h, wave |-> w]

\* LOW for 31 polls, then HIGH: Active on poll 31 at counter 405.
\* HIGH for 4 polls, LOW for 31, then HIGH: Active at counter 401.
\* HIGH for 151 polls, then LOW for 61: Inactive at 99, Active at 404.
\* HIGH for 155 polls, then LOW for 61: Inactive, and 400 is not enough.
\* LOW and HIGH in turn: the counter gains 4 in every 2 polls.
\* LOW with a HIGH glitch every 6th poll; HIGH with a LOW glitch every 10th.
GapStarts ==
    {LineStart("LOW", 0, Wave(31, 306)),
     LineStart("HIGH", 302, Wave(31, 306)),
     LineStart("HIGH", 0, Wave(61, 151)),
     LineStart("HIGH", 0, Wave(61, 155)),
     LineStart("LOW", 0, Wave(1, 1)),
     LineStart("LOW", 0, Wave(5, 1)),
     LineStart("HIGH", 0, Wave(1, 9))}

InitGap ==
    /\ InitProgram
    /\ \E start \in [Zones -> GapStarts] :
          /\ pins = [z \in Zones |-> start[z].level]
          /\ held = [z \in Zones |-> start[z].held]
          /\ wave = [z \in Zones |-> start[z].wave]

SpecGap == InitGap /\ [][NextLog]_vars

(***************************************************************************)
(* SpecEpoch: as SpecLog, the clock started just below 1,000,000,000: the  *)
(* timestamps logged have 9 digits, then 10 as those of a Unix clock have. *)
(***************************************************************************)
InitEpoch ==
    /\ zone_list = InitialZoneList
    /\ zone_events = <<>>
    /\ zone_events_json = InitialJson(ZONE_EVENTS_JSON_SIZE)
    /\ polls = 0
    /\ last_poll = 0
    /\ last_event = 0
    /\ clock = EpochStart
    /\ published = <<>>
    /\ pushed = <<>>
    /\ runs = [z \in Zones |-> NoRun]
    /\ json_ret = -1
    /\ json_writes = {}
    /\ renders = 0
    /\ aborted = FALSE
    /\ pins \in [Zones -> Levels]
    /\ held = [z \in Zones |-> 0]
    /\ wave \in [Zones -> LogWaves]

SpecEpoch == InitEpoch /\ [][NextLog]_vars

(***************************************************************************)
(* SpecWrap: the program after a long run, the poll counter about to       *)
(* overflow.  Every line carries Wave(1, 5), under which a zone is back at *)
(* its start-up state every 6 polls: the states of InitWrap are states the *)
(* program is in after INT_MAX - 1 - 6k polls.                             *)
(***************************************************************************)
WrapWave == Wave(1, 5)

WrapPeriod == WrapWave.low + WrapWave.high

InitWrap ==
    /\ zone_list = InitialZoneList
    /\ zone_events = <<>>
    /\ zone_events_json = InitialJson(ZONE_EVENTS_JSON_SIZE)
    /\ \E k \in 0 .. WrapLead : polls = INT_MAX - 1 - WrapPeriod * k
    /\ last_poll = StartTime
    /\ last_event = 0
    /\ clock = StartTime
    /\ published = <<>>
    /\ pushed = <<>>
    /\ runs = [z \in Zones |-> NoRun]
    /\ json_ret = -1
    /\ json_writes = {}
    /\ renders = 0
    /\ aborted = FALSE
    /\ pins \in [Zones -> Levels]
    /\ held = [z \in Zones |-> 0]
    /\ wave = [z \in Zones |-> WrapWave]

PollWrap ==
    /\ ~aborted
    /\ (polls >= INT_MAX - 1 - WrapPeriod * WrapLead \/ polls < WrapPolls)
    /\ read_all_zones(pins, [z \in Zones |-> clock], clock)
    /\ LinesAdvance

NextWrap == PollWrap

SpecWrap == InitWrap /\ [][NextWrap]_vars

(***************************************************************************)
(* SpecEnc: update_event_json applied to a log and a destination buffer    *)
(* drawn from bounded sets.                                                *)
(***************************************************************************)
EncTimes == {1000, 2147483647}

\* Zones 0 and 2 turned on, zone 1 turned off, at each of the times
EncDemand(id) == IF id = 1 THEN False ELSE True

EncEvents ==
    {ZoneEvent(ZoneInfo(id, PinOf(id),
                        IF EncDemand(id) = True THEN HYST_THRESH_ON + 5
                                                ELSE HYST_THRESH_OFF - 1,
                        EncDemand(id)),
               t, EncDemand(id)) :
        id \in Zones, t \in EncTimes}

EncLogs == UNION {[1 .. n -> EncEvents] : n \in 0 .. MaxEncLog}

RECURSIVE Reverse(_)
Reverse(s) == IF s = <<>> THEN <<>> ELSE Reverse(Tail(s)) \o <<s[1]>>

InitEnc ==
    /\ zone_list = InitialZoneList
    /\ zone_events \in EncLogs
    /\ \E size \in 1 .. MaxCap : zone_events_json = JunkBuffer(size)
    /\ polls = 0
    /\ last_poll = 0
    /\ last_event = 0
    /\ clock = StartTime
    /\ pins = [z \in Zones |-> "HIGH"]
    /\ held = [z \in Zones |-> 0]
    /\ wave = [z \in Zones |-> Wave(1, 1)]
    /\ published = <<>>
    /\ pushed = Reverse(zone_events)
    /\ runs = [z \in Zones |-> NoRun]
    /\ json_ret = -1
    /\ json_writes = {}
    /\ renders = 0
    /\ aborted = FALSE

UpdateEventJson ==
    LET r == update_event_json(zone_events_json, zone_events)
    IN  /\ ~aborted
        /\ renders < MaxRenders
        /\ zone_events_json' = r.mem.buf
        /\ json_ret' = r.ret
        /\ json_writes' = r.mem.w
        /\ renders' = renders + 1
        /\ UNCHANGED <<zone_list, zone_events, polls, last_poll, last_event,
                       clock, pins, held, wave, published, pushed, runs,
                       aborted>>

NextEnc == UpdateEventJson

SpecEnc == InitEnc /\ [][NextEnc]_vars

(***************************************************************************)
(* JSON syntax of the rendered text, independent of the encoder            *)
(***************************************************************************)
IsDigit(c) == c \in {"0", "1", "2", "3", "4", "5", "6", "7", "8", "9"}

\* A JSON integer: an optional minus, then digits with no leading zero
IsJsonInt(s) ==
    LET d == IF Len(s) >= 1 /\ s[1] = "-" THEN Tail(s) ELSE s
    IN  /\ Len(d) >= 1
        /\ \A i \in 1 .. Len(d) : IsDigit(d[i])
        /\ (Len(d) > 1 => d[1] # "0")

KeyId == <<"{", "\"", "i", "d", "\"", ":">>
KeyT  == <<",", "\"", "t", "\"", ":">>
KeyOn == <<",", "\"", "o", "n", "\"", ":">>

\* {"id":<int>,"t":<int>,"on":<0|1>}
IsEventObject(s) ==
    \E a \in 1 .. Len(s) : \E b \in 1 .. Len(s) :
        /\ Len(s) = 6 + a + 5 + b + 6 + 1 + 1
        /\ SubSeq(s, 1, 6) = KeyId
        /\ IsJsonInt(SubSeq(s, 7, 6 + a))
        /\ SubSeq(s, 7 + a, 11 + a) = KeyT
        /\ IsJsonInt(SubSeq(s, 12 + a, 11 + a + b))
        /\ SubSeq(s, 12 + a + b, 17 + a + b) = KeyOn
        /\ s[18 + a + b] \in {"0", "1"}
        /\ s[19 + a + b] = "}"

\* One or more objects separated by single commas
RECURSIVE IsObjectList(_)
IsObjectList(s) ==
    /\ \E j \in 1 .. Len(s) : s[j] = "}"
    /\ LET close == CHOOSE j \in 1 .. Len(s) :
                        s[j] = "}" /\ \A k \in 1 .. (j - 1) : s[k] # "}"
       IN  /\ IsEventObject(SubSeq(s, 1, close))
           /\ \/ close = Len(s)
              \/ /\ close + 1 < Len(s)
                 /\ s[close + 1] = ","
                 /\ IsObjectList(SubSeq(s, close + 2, Len(s)))

IsJsonArray(s) ==
    /\ Len(s) >= 2
    /\ s[1] = "["
    /\ s[Len(s)] = "]"
    /\ (Len(s) = 2 \/ IsObjectList(SubSeq(s, 2, Len(s) - 1)))

\* The number of objects of an array text: its closing braces
ObjectCount(s) == Cardinality({j \in 1 .. Len(s) : s[j] = "}"})

(***************************************************************************)
(* The array the encoder is to produce, stated from the sizes              *)
(***************************************************************************)
RECURSIVE DecimalLen(_)
DecimalLen(n) == IF n < 0 THEN 1 + DecimalLen(-n)
                 ELSE IF n < 10 THEN 1 ELSE 1 + DecimalLen(n \div 10)

\* Length of {"id":I,"t":T,"on":B}
ObjectLen(event) == 6 + DecimalLen(event.info.id) + 5 + DecimalLen(event.time) + 8

\* Bytes needed by the array of the first k events: '[', the objects, the
\* commas between them, ']' and the NUL
RECURSIVE SumLen(_, _)
SumLen(events, k) == IF k = 0 THEN 0
                     ELSE SumLen(events, k - 1) + ObjectLen(events[k])

BytesNeeded(events, k) ==
    1 + SumLen(events, k) + (IF k > 1 THEN k - 1 ELSE 0) + 1 + 1

\* The longest prefix that fits in capacity bytes
FitCount(events, capacity) ==
    CHOOSE k \in 0 .. Len(events) :
        /\ BytesNeeded(events, k) <= capacity
        /\ (k < Len(events) => BytesNeeded(events, k + 1) > capacity)

RECURSIVE Joined(_, _)
Joined(events, k) ==
    IF k = 0 THEN <<>>
    ELSE IF k = 1 THEN FormatEvent(events[1])
    ELSE Joined(events, k - 1) \o <<",">> \o FormatEvent(events[k])

ArrayText(events, k) == <<"[">> \o Joined(events, k) \o <<"]">>

Called == json_ret # -1

Capacity == zone_events_json.size

(***************************************************************************)
(* Claims about update_event_json, checked under SpecEnc                   *)
(***************************************************************************)

\* C3: for any log and any capacity >= 3, update_event_json (with the writes
\* write_event_json makes for an element that does not fit) writes only at
\* indices 0 .. capacity-1, and leaves a NUL-terminated string that is a JSON
\* array: '[', zero or more complete comma-separated objects, ']'.
C3_EncoderSafety ==
    (Called /\ Capacity >= 3) =>
        /\ json_writes \subseteq 0 .. (Capacity - 1)
        /\ HasNul(zone_events_json)
        /\ IsJsonArray(CStr(zone_events_json))

\* An element did not fit and left part of its text beyond the terminator
C3_Witness ==
    /\ Called /\ Capacity >= 3
    /\ ObjectCount(CStr(zone_events_json)) \in 1 .. (Len(zone_events) - 1)
    /\ \E i \in json_writes : i > json_ret
    /\ \E i \in (json_ret + 1) .. (Capacity - 1) :
          ByteAt(zone_events_json, i) \notin {"?", NUL}

\* C4: the rendered array holds exactly the longest prefix of the log whose
\* objects, commas, ']' and NUL fit in the capacity; encoding stops at the
\* first element that does not fit; the value returned is the length of the
\* rendered string without the NUL.
C4_LongestFittingPrefix ==
    (Called /\ Capacity >= 3) =>
        /\ CStr(zone_events_json)
             = ArrayText(zone_events, FitCount(zone_events, Capacity))
        /\ json_ret = Len(CStr(zone_events_json))

\* The first event is rendered, the second does not fit and ends the array,
\* although the shorter third event would have fitted after the first
C4_Witness ==
    /\ Called /\ Capacity >= 3
    /\ Len(zone_events) = 3
    /\ ObjectCount(CStr(zone_events_json)) = 1
    /\ BytesNeeded(zone_events, 1) + 1 + ObjectLen(zone_events[3]) <= Capacity

\* The log and capacity of scenario C
ScenarioCText ==
    <<"{", "\"", "i", "d", "\"", ":", "0", ",", "\"", "t", "\"", ":",
      "1", "0", "0", "0", ",", "\"", "o", "n", "\"", ":", "1", "}">>

ScenarioCLog ==
    /\ Len(zone_events) = 2
    /\ \A i \in 1 .. 2 : FormatEvent(zone_events[i]) = ScenarioCText

\* C9 as claimed: capacity 25 and two events rendering as
\* {"id":0,"t":1000,"on":1} give the array of the first event alone, within 25
\* bytes with the NUL.
C9_AsClaimed ==
    (Called /\ ScenarioCLog /\ Capacity = 25) =>
        /\ CStr(zone_events_json) = <<"[">> \o ScenarioCText \o <<"]">>
        /\ Len(CStr(zone_events_json)) + 1 <= 25

\* C9 amended: with capacity 25 neither event fits (one element takes
\* 1 + 24 + 1 + 1 = 27 bytes) and the output is "[]"; the array of the first
\* event alone is the output for the capacities 27 to 51.
C9_ScenarioC ==
    (Called /\ ScenarioCLog) =>
        /\ Capacity \in 3 .. 26 =>
              /\ CStr(zone_events_json) = <<"[", "]">>
              /\ json_ret = 2
        /\ Capacity \in 27 .. 51 =>
              /\ CStr(zone_events_json) = <<"[">> \o ScenarioCText \o <<"]">>
              /\ json_ret = 26
        /\ Capacity >= 52 => ObjectCount(CStr(zone_events_json)) = 2

C9_Witness ==
    /\ Called /\ ScenarioCLog /\ Capacity = 25
    /\ CStr(zone_events_json) = <<"[", "]">>

\* C10: with a capacity below 3 update_event_json returns 0 and writes
\* nothing, whatever the log holds; it writes only when the capacity is at
\* least 3.
C10_MinimumBound ==
    /\ (Called /\ Capacity < 3) =>
          /\ json_ret = 0
          /\ json_writes = {}
          /\ zone_events_json = JunkBuffer(Capacity)
    /\ (Called /\ Capacity >= 3) =>
          /\ json_ret >= 2
          /\ {0, json_ret - 1, json_ret} \subseteq json_writes

C10_Witness ==
    /\ Called /\ Capacity = 2 /\ Len(zone_events) > 0
    /\ json_ret = 0

\* C15: update_event_json called twice in a row on an unchanged log and the
\* same capacity, whatever the buffer held before the first call, returns the
\* same value and leaves a byte-identical rendered string.
C15_EncoderIdempotent ==
    [][renders >= 1 =>
          /\ zone_events' = zone_events
          /\ json_ret' = json_ret
          /\ CStr(zone_events_json') = CStr(zone_events_json)
          /\ Bytes(zone_events_json') = Bytes(zone_events_json)]_vars

\* Called twice on a log whose last event does not fit: the second call ran
\* over the array and the partial object the first one left in the buffer
C15_Witness ==
    /\ renders = 2
    /\ Capacity >= 3
    /\ ObjectCount(CStr(zone_events_json)) \in 1 .. (Len(zone_events) - 1)
    /\ \E i \in (json_ret + 1) .. (Capacity - 1) :
          ByteAt(zone_events_json, i) \notin {"?", NUL}

(***************************************************************************)
(* Claims about the event log, checked under SpecLog                       *)
(***************************************************************************)

\* C2: after any sequence of pushes the log holds at most MAX_NUM_EVENTS
\* entries, and they are exactly the most recent min(n, 20) pushed events,
\* unmodified, newest first.
C2_LogCapacity ==
    LET n == Len(pushed)
        k == Min(n, MAX_NUM_EVENTS)
    IN  /\ Len(zone_events) <= MAX_NUM_EVENTS
        /\ Len(zone_events) = k
        /\ \A i \in 1 .. k : zone_events[i] = pushed[n + 1 - i]

\* Scenario B: 25 distinct events pushed; the log holds the 25th at the front
\* and the 6th at the back
C2_Witness ==
    /\ Len(pushed) = 25
    /\ \A i, j \in 1 .. 25 : i # j => pushed[i] # pushed[j]
    /\ Len(zone_events) = 20
    /\ zone_events[1] = pushed[25]
    /\ zone_events[20] = pushed[6]

(***************************************************************************)
(* Claims about the hysteresis and the logging of transitions, under Spec  *)
(***************************************************************************)

\* C1: after every observation each zone's hysteresis counter lies in
\* [HYST_MIN, HYST_MAX].
C1_CounterBounded ==
    \A z \in Zones : zone_list[z].count \in HYST_MIN .. HYST_MAX

\* One zone held at HYST_MIN by more HIGH reads than the counter can count
\* down, another held at HYST_MAX by more LOW reads than it can count up
C1_Witness ==
    /\ \E z \in Zones : /\ zone_list[z].count = HYST_MIN
                        /\ pins[z] = "HIGH"
                        /\ held[z] > HYST_MAX \div 2
    /\ \E z \in Zones : /\ zone_list[z].count = HYST_MAX
                        /\ runs[z].len > HYST_MAX \div 10

\* The events a poll step appends to the history
NewEvents == SubSeq(pushed', Len(pushed) + 1, Len(pushed'))

NewPayloads == SubSeq(published', Len(published) + 1, Len(published'))

ChangedZones == {z \in Zones : zone_list'[z].demand # zone_list[z].demand}

C5_Step ==
    /\ Len(NewEvents) = Cardinality(ChangedZones)
    /\ {NewEvents[i].info.id : i \in 1 .. Len(NewEvents)} = ChangedZones
    /\ Len(NewPayloads) = Len(NewEvents)
    /\ \A i \in 1 .. Len(NewEvents) :
          LET e == NewEvents[i]
              p == NewPayloads[i]
          IN  /\ e.demand = zone_list'[e.info.id].demand
              /\ e.demand \in {True, False}
              /\ zone_events'[Len(NewEvents) + 1 - i] = e
              /\ Len(p) >= 2
              /\ (p[Len(p) - 1] = "1") <=> (e.demand = True)
              /\ p[Len(p) - 1] \in {"0", "1"}

\* C5: in every poll and for every zone an event is pushed if and only if
\* the zone's demand after the observation differs from its demand before;
\* the event carries the zone's id and the new demand, Active or Inactive,
\* so the log never holds an event with demand Unknown, and the "on" field
\* is 1 exactly for Active events.
C5_LoggedIffChanged ==
    /\ [][C5_Step]_vars
    /\ [](\A i \in 1 .. Len(zone_events) : zone_events[i].demand \in {True, False})

\* The first resolution of a zone out of Unknown was logged, and an
\* Inactive and an Active event are in the log
C5_Witness ==
    /\ \E i \in 1 .. Len(zone_events) : zone_events[i].demand = True
    /\ \E i \in 1 .. Len(zone_events) : zone_events[i].demand = False
    /\ \E z \in Zones :
          /\ zone_list[z].demand # Unknown
          /\ Cardinality({i \in 1 .. Len(pushed) : pushed[i].info.id = z}) = 1
    /\ \E z \in Zones : zone_list[z].demand = Unknown

\* The text {"id":I,"t":T,"on":B} of an event, from the JSON syntax
ObjectText(e) ==
    KeyId \o Digits(e.info.id) \o KeyT \o Digits(e.time) \o KeyOn
    \o <<IF e.demand = True THEN "1" ELSE "0", "}">>

\* C16: every event pushed to the log is notified exactly once, with the
\* single-object rendering (no comma, no brackets) of that same event, before
\* the next zone is observed: the notifications match the pushes one-to-one
\* and in order, and none is emitted without a push.
C16_NotifiedOncePerPush ==
    /\ [](/\ Len(published) = Len(pushed)
          /\ \A i \in 1 .. Len(pushed) :
                /\ published[i] = ObjectText(pushed[i])
                /\ IsEventObject(published[i]))
    /\ [][/\ Len(NewPayloads) = Cardinality(ChangedZones)
          /\ \A i \in 1 .. Len(NewPayloads) : \A j \in 1 .. Len(NewPayloads) :
                (i < j) => NewEvents[i].info.id < NewEvents[j].info.id
          /\ \A i \in 1 .. Len(NewPayloads) :
                NewPayloads[i] = ObjectText(zone_events'[Len(NewPayloads) + 1 - i])]_vars

\* Two zones transitioned in one poll after the log held other events: the
\* payloads of the two are different and in the order of the pushes
C16_Witness ==
    /\ Len(pushed) >= 4
    /\ Len(published) = Len(pushed)
    /\ LET n == Len(pushed)
       IN  /\ pushed[n].time = pushed[n - 1].time
           /\ pushed[n].info.id > pushed[n - 1].info.id
           /\ pushed[n].demand # pushed[n - 1].demand
           /\ published[n] = ObjectText(pushed[n])
           /\ published[n - 1] = ObjectText(pushed[n - 1])
           /\ published[n] # published[n - 1]

AllowedChanges ==
    {<<Unknown, True>>, <<Unknown, False>>, <<True, False>>, <<False, True>>}

\* C6: the only changes of a zone's demand are Unknown->Active,
\* Unknown->Inactive, Active->Inactive and Inactive->Active; a demand that
\* has left Unknown never becomes Unknown again.
C6_DemandTransitions ==
    [][\A z \in Zones :
          \/ zone_list'[z].demand = zone_list[z].demand
          \/ <<zone_list[z].demand, zone_list'[z].demand>> \in AllowedChanges]_vars

\* The demands a zone has logged, oldest first
RECURSIVE DemandsOf(_, _)
DemandsOf(z, events) ==
    IF events = <<>> THEN <<>>
    ELSE IF events[1].info.id = z
         THEN <<events[1].demand>> \o DemandsOf(z, Tail(events))
         ELSE DemandsOf(z, Tail(events))

\* One zone went Unknown -> Active -> Inactive, another Unknown -> Inactive
\* -> Active
C6_Witness ==
    /\ \E z \in Zones : DemandsOf(z, pushed) = <<True, False>>
    /\ \E z \in Zones : DemandsOf(z, pushed) = <<False, True>>

\* C7: a demand becomes Active only on an observation that leaves the
\* counter above HYST_THRESH_ON, and Inactive only on one that leaves it
\* below HYST_THRESH_OFF; while the counter is within the dead band the
\* demand does not change.
C7_NoPrematureFlip ==
    [][\A z \in Zones :
          LET d  == zone_list[z].demand
              d2 == zone_list'[z].demand
              c2 == zone_list'[z].count
          IN  /\ (d2 # d /\ d2 = True) => c2 > HYST_THRESH_ON
              /\ (d2 # d /\ d2 = False) => c2 < HYST_THRESH_OFF
              /\ (c2 \in HYST_THRESH_OFF .. HYST_THRESH_ON) => d2 = d]_vars

\* A zone still Active with its counter in the lower half of the dead band,
\* and a zone still Inactive with its counter exactly at HYST_THRESH_ON
C7_Witness ==
    /\ \E z \in Zones : /\ zone_list[z].demand = True
                        /\ zone_list[z].count \in
                              HYST_THRESH_OFF .. (HYST_MAX \div 2 - 1)
    /\ \E z \in Zones : /\ zone_list[z].demand = False
                        /\ zone_list[z].count = HYST_THRESH_ON

\* C12: in every poll the JSON buffer is regenerated exactly once, after all
\* zones have been processed, if at least one zone transitioned in that poll,
\* and is not regenerated (the buffer, the log and last_event stay unchanged)
\* if none did; so at the end of every poll the rendered buffer is the
\* encoding of the current log.
C12_RenderedOncePerPoll ==
    /\ [][IF ChangedZones # {}
          THEN /\ renders' = renders + 1
               /\ CStr(zone_events_json')
                     = ArrayText(zone_events', FitCount(zone_events', Capacity))
          ELSE /\ renders' = renders
               /\ UNCHANGED <<zone_events_json, zone_events, last_event>>]_vars
    /\ [](CStr(zone_events_json)
            = ArrayText(zone_events, FitCount(zone_events, Capacity)))

\* Two zones transitioned in one poll and the buffer, regenerated once, holds
\* both events; polls without a transition followed and left it alone
C12_Witness ==
    /\ renders = 1
    /\ Len(pushed) = 2
    /\ polls >= 40
    /\ ObjectCount(CStr(zone_events_json)) = 2
    /\ CStr(zone_events_json) = ArrayText(zone_events, 2)

(***************************************************************************)
(* Claims about the poll counter, checked under SpecWrap                   *)
(***************************************************************************)

\* C11: polls is never negative; every poll increases it by exactly 1,
\* except that a poll taken at INT_MAX, the increment wrapping modulo 2^32,
\* leaves it at 0 and not at a negative value.  (A poll ended by the overflow
\* trap is not one whose increment wraps: it leaves polls at INT_MAX.)
C11_PollsNeverNegative ==
    /\ [](polls >= 0)
    /\ [][IF aborted' THEN polls = INT_MAX /\ polls' = polls
          ELSE polls' = IF polls = INT_MAX THEN 0 ELSE polls + 1]_vars

\* The poll taken at INT_MAX has left the counter at 0 and the polls after
\* it count up again (every run of SpecWrap starts within WrapPeriod *
\* WrapLead + 1 polls of INT_MAX)
C11_Witness ==
    /\ polls = 3
    /\ \E z \in Zones : zone_list[z].count # HYST_MAX \div 2

\* The counter of a zone after one read of the level
CountAfter(count, level) ==
    IF level = "HIGH" THEN Max(count - 1, HYST_MIN) ELSE Min(count + 5, HYST_MAX)

\* Entry a of the log is nearer the front than it may be after entry b:
\* under SpecLog the clock ticks once per poll, so that the time of an event
\* tells its poll
LaterThan(a, b) ==
    \/ a.time > b.time
    \/ (a.time = b.time /\ a.info.id > b.info.id)

\* C17: within a poll every zone is observed exactly once, in ascending id
\* order, so the log read front to back is ordered by (poll descending, zone
\* id descending): of two events of one poll the higher id is nearer the
\* front, and every event of a later poll is nearer the front than every
\* event of an earlier poll.
C17_LogOrder ==
    /\ [](\A i \in 1 .. Len(zone_events) : \A j \in 1 .. Len(zone_events) :
            (i < j) => LaterThan(zone_events[i], zone_events[j]))
    /\ [][/\ \A z \in Zones :
                zone_list'[z].count = CountAfter(zone_list[z].count, pins[z])
          /\ \A i \in 1 .. Len(NewEvents) :
                /\ NewEvents[i].time = clock
                /\ \A j \in 1 .. Len(NewEvents) :
                      (i < j) => NewEvents[i].info.id < NewEvents[j].info.id]_vars

\* The two newest entries are of one poll, the higher id in front, and the
\* entries behind them are of earlier polls
C17_Witness ==
    /\ Len(zone_events) >= 4
    /\ zone_events[1].time = zone_events[2].time
    /\ zone_events[1].info.id > zone_events[2].info.id
    /\ zone_events[3].time < zone_events[2].time
    /\ zone_events[4].time < zone_events[3].time

(***************************************************************************)
(* The whole log in the buffer, checked under SpecEpoch                    *)
(***************************************************************************)
Shown == ObjectCount(CStr(zone_events_json))

\* C18 as claimed: with log capacity 20 and 620 bytes the rendered array
\* holds one element for each event of the log, for every timestamp of up to
\* 10 digits.
C18_AsClaimed == Shown = Len(zone_events)

(***************************************************************************)
(* Claims about the timestamps, checked under SpecLog, where the clock     *)
(* ticks between the loop over the zones and the Time.now() after it       *)
(***************************************************************************)

\* C13 as claimed: at the end of any poll, if the log is non-empty,
\* last_event equals the time field of the newest (front) log entry.
C13_AsClaimed ==
    (zone_events # <<>>) => last_event = zone_events[1].time

(***************************************************************************)
(* Demand and counter together, checked under Spec                         *)
(***************************************************************************)

\* C19: at every poll boundary each zone's demand and counter agree: Active
\* implies counter >= HYST_THRESH_OFF, Inactive implies counter <=
\* HYST_THRESH_ON, and Unknown implies HYST_THRESH_OFF <= counter <=
\* HYST_THRESH_ON.
C19_DemandMatchesCounter ==
    \A z \in Zones :
       LET d == zone_list[z].demand
           c == zone_list[z].count
       IN  /\ d = True => c >= HYST_THRESH_OFF
           /\ d = False => c <= HYST_THRESH_ON
           /\ d = Unknown => (c >= HYST_THRESH_OFF /\ c <= HYST_THRESH_ON)

\* A zone still Active with its counter down at HYST_THRESH_OFF, a zone
\* still Inactive with its counter up in the dead band, and a zone Unknown
C19_Witness ==
    /\ \E z \in Zones : /\ zone_list[z].demand = True
                        /\ zone_list[z].count = HYST_THRESH_OFF
    /\ \E z \in Zones : /\ zone_list[z].demand = False
                        /\ zone_list[z].count > HYST_THRESH_OFF
    /\ \E z \in Zones : zone_list[z].demand = Unknown

(***************************************************************************)
(* The spacing of the events of a zone, checked under SpecGap, where the   *)
(* clock ticks once per poll and the time of an event tells its poll       *)
(***************************************************************************)
PollOf(event) == event.time - StartTime + 1

\* Entries i < j of the push history are consecutive events of one zone
ConsecutiveOfZone(i, j) ==
    /\ i < j
    /\ pushed[i].info.id = pushed[j].info.id
    /\ \A k \in (i + 1) .. (j - 1) : pushed[k].info.id # pushed[i].info.id

\* C20: two consecutive logged events of a zone are at least 61 polls apart
\* (an Inactive event followed by an Active one at least 61 polls, an Active
\* event followed by an Inactive one at least 302 polls), and no zone logs
\* its first event before its 31st poll.
C20_EventSpacing ==
    /\ \A i \in 1 .. Len(pushed) : PollOf(pushed[i]) >= 31
    /\ \A i \in 1 .. Len(pushed) : \A j \in 1 .. Len(pushed) :
          ConsecutiveOfZone(i, j) =>
             /\ pushed[i].demand # pushed[j].demand
             /\ PollOf(pushed[j]) - PollOf(pushed[i]) >= 61
             /\ (pushed[i].demand = True) =>
                   PollOf(pushed[j]) - PollOf(pushed[i]) >= 302

\* Each of the three distances at its least: a first event on poll 31, an
\* Active event 61 polls after an Inactive one, an Inactive event 302 polls
\* after an Active one
C20_Witness ==
    /\ \E i \in 1 .. Len(pushed) : PollOf(pushed[i]) = 31
    /\ \E i \in 1 .. Len(pushed) : \E j \in 1 .. Len(pushed) :
          /\ ConsecutiveOfZone(i, j)
          /\ pushed[i].demand = False
          /\ PollOf(pushed[j]) - PollOf(pushed[i]) = 61
    /\ \E i \in 1 .. Len(pushed) : \E j \in 1 .. Len(pushed) :
          /\ ConsecutiveOfZone(i, j)
          /\ pushed[i].demand = True
          /\ PollOf(pushed[j]) - PollOf(pushed[i]) = 302

CeilDiv(a, b) == (a + b - 1) \div b

\* C8 as claimed: for a zone not Active whose counter is c, a run of LOW
\* readings makes the demand Active on read number
\* ceil((HYST_THRESH_ON - c) / 5) and on no earlier read (read 30 from the
\* initial counter 250, read 80 from counter 0).
C8_AsClaimed ==
    \A z \in Zones :
       (runs[z].len >= 1 /\ runs[z].demand # True) =>
          ((zone_list[z].demand = True)
              <=> (runs[z].len >= CeilDiv(HYST_THRESH_ON - runs[z].count, 5)))

====
